---------------------------- MODULE Spec2Model ----------------------------
(***************************************************************************)
(* A model of nytcampfin.py, the client of the New York Times Campaign     *)
(* Finance API: Client.fetch, the endpoint methods of FilingsClient,       *)
(* CandidatesClient and CommitteesClient, and the NytCampfin facade.       *)
(*                                                                         *)
(* Python values are tagged records, strings are TLA+ strings, a dict is a *)
(* function whose domain is its set of keys, a list or tuple is a          *)
(* sequence.  A call of a method is one step: it runs from the method's    *)
(* first line to the return or the raise that ends Client.fetch, the       *)
(* transport's answer being chosen among Responses.  The caller then       *)
(* leaves the call (Return) and may call again.                            *)
(***************************************************************************)
EXTENDS Integers, Sequences, FiniteSets, TLC

VARIABLES
    environ,    \* os.environ['NYT_CAMPFIN_API_KEY']
    given,      \* the apikey argument NytCampfin was constructed with
    apikey,     \* apikey[c]: the attribute self.apikey of client object c
    pc,         \* "idle": between calls; "done": a call has just ended
    call,       \* the call that has just ended: the method and what it gave fetch
    sent,       \* the requests.get calls made by that call, in order
    resp,       \* the response requests.get gave that call
    outcome     \* how that call ended: a returned value or a raised exception

vars == <<environ, given, apikey, pc, call, sent, resp, outcome>>

-----------------------------------------------------------------------------
(* Bounds of the model *)

MaxResults == 2     \* longest "results" list in a response body
MaxErrors == 2      \* longest "errors" list in a response body

-----------------------------------------------------------------------------
(* Python values *)

None == [t |-> "None"]
Omitted == [t |-> "omitted"]        \* an argument the caller did not pass
PyInt(n) == [t |-> "int", n |-> n]
PyStr(s) == [t |-> "str", s |-> s]
Lambda(f) == [t |-> "fn", f |-> f]

\* Python's truth value of x, as tested by `not x` and `if x`
Truthy(x) ==
    CASE x.t = "int" -> x.n # 0
      [] x.t = "str" -> x.s # ""
      [] x.t = "fn" -> TRUE
      [] OTHER -> FALSE

\* callable(x)
Callable(x) == x.t = "fn"

\* str(x), which the %s conversion applies
Str(x) ==
    CASE x.t = "int" -> ToString(x.n)
      [] x.t = "str" -> x.s
      [] OTHER -> "None"

\* a parameter with a default value: the default when the caller omits it
Default(x, d) == IF x = Omitted THEN d ELSE x

-----------------------------------------------------------------------------
(* Module constants *)

DEBUG == FALSE

CURRENT_CYCLE == 2012

BASE_URI == "http://api.nytimes.com/svc/elections/us/v3/finances"

-----------------------------------------------------------------------------
(* Strings *)

UpperCase == "ABCDEFGHIJKLMNOPQRSTUVWXYZ"
LowerCase == "abcdefghijklmnopqrstuvwxyz"

LowerChar(c) ==
    IF \E i \in 1..26 : SubSeq(UpperCase, i, i) = c
    THEN LET i == CHOOSE j \in 1..26 : SubSeq(UpperCase, j, j) = c
         IN  SubSeq(LowerCase, i, i)
    ELSE c

\* s.lower(): each character lowered, the two halves of s in turn
RECURSIVE Lower(_)
Lower(s) ==
    IF Len(s) = 0 THEN ""
    ELSE IF Len(s) = 1 THEN LowerChar(s)
    ELSE LET h == Len(s) \div 2
         IN  Lower(SubSeq(s, 1, h)) \o Lower(SubSeq(s, h + 1, Len(s)))

\* s.startswith(p)
StartsWith(s, p) == Len(s) >= Len(p) /\ SubSeq(s, 1, Len(p)) = p

\* The result of fmt % args: the formatted string, or the exception raised.
Formatted(s) == [exc |-> "", s |-> s]
FormatError(e) == [exc |-> e, s |-> ""]
Prefixed(p, r) == IF r.exc = "" THEN Formatted(p \o r.s) ELSE r

\* the positions of the percent signs of fmt
Percents(fmt) == {i \in 1..Len(fmt) : SubSeq(fmt, i, i) = "%"}

\* fmt % args for a tuple args, read from the left: the text before the first
\* percent sign is copied; %s takes the next argument, %% is a percent sign;
\* too few or too many arguments is a TypeError, any other conversion
\* character (or none) a ValueError.
RECURSIVE PercentFormat(_, _)
PercentFormat(fmt, args) ==
    IF Percents(fmt) = {}
    THEN IF Len(args) = 0 THEN Formatted(fmt) ELSE FormatError("TypeError")
    ELSE LET i == CHOOSE p \in Percents(fmt) : \A q \in Percents(fmt) : p <= q
             text == SubSeq(fmt, 1, i - 1)
             conv == SubSeq(fmt, i + 1, i + 1)
             rest == SubSeq(fmt, i + 2, Len(fmt))
         IN  IF i = Len(fmt) THEN FormatError("ValueError")
             ELSE IF conv = "%"
             THEN Prefixed(text \o "%", PercentFormat(rest, args))
             ELSE IF conv = "s"
             THEN IF Len(args) = 0 THEN FormatError("TypeError")
                  ELSE Prefixed(text \o Str(Head(args)),
                                PercentFormat(rest, Tail(args)))
             ELSE FormatError("ValueError")

\* sep.join(parts)
RECURSIVE Join(_, _)
Join(sep, parts) ==
    IF Len(parts) = 0 THEN ""
    ELSE IF Len(parts) = 1 THEN parts[1]
    ELSE parts[1] \o sep \o Join(sep, Tail(parts))

-----------------------------------------------------------------------------
(* Client.fetch *)

Clients == {"facade", "filings", "committees", "candidates"}

\* How a call ends
Returned(v) == [kind |-> "return", value |-> v]
Raised(type, msg) == [kind |-> "raise", type |-> type, msg |-> msg]
NoOutcome == [kind |-> "none"]

\* `if not kwargs['offset']: kwargs['offset'] = 0`, for kwargs that has the key
NormalizeOffset(kwargs) ==
    IF ~Truthy(kwargs["offset"])
    THEN [kwargs EXCEPT !["offset"] = PyInt(0)]
    ELSE kwargs

\* the default of kwargs.pop('parse', ...): lambda r: r['results'][0]
FirstResult == Lambda("first_result")
\* the parse the endpoint methods pass: lambda r: r['results']
Results == Lambda("results")

\* the value of kwargs.pop('parse', lambda r: r['results'][0])
PopParse(kwargs) ==
    IF "parse" \in DOMAIN kwargs THEN kwargs["parse"] ELSE FirstResult

\* kwargs after the pop
WithoutParse(kwargs) == [k \in DOMAIN kwargs \ {"parse"} |-> kwargs[k]]

\* a fetch that keeps an api-key the caller passed: kwargs.setdefault('api-key', self.apikey)
SetApiKeyDefault(kwargs, key) ==
    [k \in DOMAIN kwargs \cup {"api-key"} |->
        IF k \in DOMAIN kwargs THEN kwargs[k] ELSE key]

\* kwargs['api-key'] = self.apikey
SetApiKey(kwargs, key) ==
    [k \in DOMAIN kwargs \cup {"api-key"} |->
        IF k = "api-key" THEN key ELSE kwargs[k]]

\* not path.lower().startswith(self.BASE_URI)
IsTemplate(path) == ~StartsWith(Lower(path), BASE_URI)

\* a fetch that forgets the suffix: url = self.BASE_URI + path
TemplateUrlNoSuffix(path) == BASE_URI \o path

\* url = self.BASE_URI + "%s.json" % path
TemplateUrl(path) == BASE_URI \o PercentFormat("%s.json", <<PyStr(path)>>).s

\* the url of the request, or the exception url % args raises
BuildUrl(path, args) ==
    IF IsTemplate(path)
    THEN PercentFormat(TemplateUrl(path), args)
    ELSE Formatted(path \o "?")

\* a default parse that takes the last result: lambda r: r['results'][-1]
ApplyParseLast(parse, body) ==
    IF "results" \notin DOMAIN body THEN Raised("KeyError", "results")
    ELSE IF parse.f = "results" THEN Returned(body["results"])
    ELSE IF Len(body["results"]) = 0 THEN Raised("IndexError", "list index out of range")
    ELSE Returned(body["results"][Len(body["results"])])

\* r['results'] and r['results'][0], or the exception the lookup raises
ApplyParse(parse, body) ==
    IF "results" \notin DOMAIN body THEN Raised("KeyError", "results")
    ELSE IF parse.f = "results" THEN Returned(body["results"])
    ELSE IF Len(body["results"]) = 0 THEN Raised("IndexError", "list index out of range")
    ELSE Returned(body["results"][1])

\* resp.status_code in (200, 304)
IsSuccess(status) == status \in {200, 304}

\* a fetch without the 404 branch
ErrorClassGeneric(status) == "NytCampfinError"

\* the exception class raised for a status that is no success
ErrorClass(status) ==
    IF status = 404 THEN "NytNotFoundError" ELSE "NytCampfinError"

\* '; '.join(e for e in content['errors'])
ErrorMessage(content) == Join("; ", content["errors"])

\* the value fetch returns when DEBUG is set: result['_url'] = url
Annotated(result, url) ==
    IF DEBUG /\ result.kind = "return"
    THEN Returned([value |-> result.value, _url |-> url])
    ELSE result

\* a fetch that reads the body with defaults: content.get('errors', [])
HandleResponseLenient(parse, url, r) ==
    IF ~IsSuccess(r.status_code)
    THEN IF "errors" \notin DOMAIN r.json
         THEN Raised(ErrorClass(r.status_code), "")
         ELSE Raised(ErrorClass(r.status_code), ErrorMessage(r.json))
    ELSE IF Callable(parse)
         THEN Annotated(ApplyParse(parse, r.json), url)
         ELSE Returned(r.json)

\* fetch from the response on: how the call ends
HandleResponse(parse, url, r) ==
    IF ~IsSuccess(r.status_code)
    THEN IF "errors" \notin DOMAIN r.json
         THEN Raised("KeyError", "errors")
         ELSE Raised(ErrorClass(r.status_code), ErrorMessage(r.json))
    ELSE IF Callable(parse)
         THEN Annotated(ApplyParse(parse, r.json), url)
         ELSE Returned(r.json)

NoResponse == [status_code |-> 0, json |-> [none |-> TRUE]]
NoRequest == [url |-> "", params |-> <<>>, parse |-> None]

\* fetch up to requests.get(url, params = dict(kwargs)): the exception raised
\* before the request ("" when none is) and the request made
Request(key, path, args, kwargs) ==
    IF "offset" \notin DOMAIN kwargs
    THEN [exc |-> "KeyError", msg |-> "offset", req |-> NoRequest]
    ELSE LET kw == NormalizeOffset(kwargs)
             url == BuildUrl(path, args)
         IN  IF url.exc # ""
             THEN [exc |-> url.exc, msg |-> "format", req |-> NoRequest]
             ELSE [exc |-> "", msg |-> "",
                   req |-> [url |-> url.s,
                            params |-> SetApiKey(WithoutParse(kw), key),
                            parse |-> PopParse(kw)]]

-----------------------------------------------------------------------------
(* Construction *)

\* Client.__init__(self, apikey=API_KEY)
ClientInit(key, env) == Default(key, PyStr(env))

\* NytCampfin.__init__(self, apikey=os.environ.get('NYT_CAMPFIN_API_KEY'))
NytCampfinInit(key, env) ==
    LET own == ClientInit(Default(key, PyStr(env)), env)
    IN  [c \in Clients |-> IF c = "facade" THEN own ELSE ClientInit(own, env)]

-----------------------------------------------------------------------------
(* Inputs *)

EnvKeys == {"ENVKEY"}
KeyArgs == {Omitted, PyStr("K1")}
CycleArgs == {Omitted, PyInt(2010)}
OffsetArgs == {Omitted, None, PyInt(0), PyInt(20)}

\* the sequences over S of length at most n
RECURSIVE Lists(_, _)
Lists(S, n) ==
    IF n = 0 THEN {<<>>}
    ELSE LET shorter == Lists(S, n - 1)
         IN  shorter \cup {Append(l, x) : l \in shorter, x \in S}

ResultObjects == {[id |-> "C001"], [id |-> "C002"]}
ErrorStrings == {"server error", "retry later"}

Bodies ==
    {[results |-> l] : l \in Lists(ResultObjects, MaxResults)}
    \cup {[errors |-> l] : l \in Lists(ErrorStrings, MaxErrors)}
    \cup {[status |-> "ERROR"]}

Statuses == {200, 304, 404, 500}

YearArgs == {PyInt(2012)}
MonthArgs == {PyInt(1)}
DayArgs == {PyInt(31)}
FormTypeArgs == {PyStr("F3")}
CandidateArgs == {PyStr("P80003338")}
CommitteeArgs == {PyStr("C00490045")}
QueryArgs == {PyStr("smith")}
CategoryArgs == {PyStr("pac-total")}
StateArgs == {PyStr("NY")}
ChamberArgs == {Omitted, PyStr("house")}
DistrictArgs == {Omitted, PyInt(3)}

\* the paths given to fetch directly: templates, and urls the API returned
RawPaths ==
    {"/%s/filings",
     "/2012/committees/leadership",
     "http://example.com/svc/%s",
     BASE_URI \o "/2012/candidates/P80003338.json",
     "HTTP://API.NYTimes.com/svc/elections/us/v3/finances/2012/filings.json",
     BASE_URI \o "/2012/seats/%s.json"}
RawArgs == {<<>>, <<PyInt(2012)>>}
ParseArgs == {Omitted, Results, None}
OwnKeyArgs == {Omitted, PyStr("OTHER")}

Responses == {[status_code |-> s, json |-> b] : s \in Statuses, b \in Bodies}

-----------------------------------------------------------------------------
(* The calls *)

NoCall == [client |-> "none", method |-> "none"]

Init ==
    /\ \E env \in EnvKeys, key \in KeyArgs :
         /\ environ = env
         /\ given = key
         /\ apikey = NytCampfinInit(key, env)
    /\ pc = "idle"
    /\ call = NoCall
    /\ sent = <<>>
    /\ resp = NoResponse
    /\ outcome = NoOutcome

\* Method `method` of client c, called with `actual` when no call is under
\* way, calls self.fetch(p, *a, **kw) and returns its result.  fetch raises before the
\* request, or makes the request, takes the transport's response and ends as
\* HandleResponse says.
Call(c, method, actual, p, a, kw) ==
    /\ LET f == Request(apikey[c], p, a, kw)
       IN  IF f.exc # ""
           THEN /\ sent' = <<>>
                /\ resp' = NoResponse
                /\ outcome' = Raised(f.exc, f.msg)
           ELSE /\ sent' = <<[url |-> f.req.url, params |-> f.req.params]>>
                /\ \E r \in Responses :
                     /\ resp' = r
                     /\ outcome' = HandleResponse(f.req.parse, f.req.url, r)
    /\ call' = [client |-> c, method |-> method, actual |-> actual,
                path |-> p, args |-> a, kwargs |-> kw]
    /\ pc' = "done"
    /\ UNCHANGED <<environ, given, apikey>>

\* The caller leaves the call: the request, the response and the result of
\* the call are dropped.
Return ==
    /\ pc = "done"
    /\ pc' = "idle"
    /\ call' = NoCall
    /\ sent' = <<>>
    /\ resp' = NoResponse
    /\ outcome' = NoOutcome
    /\ UNCHANGED <<environ, given, apikey>>

FilingsToday ==
    \E cycle \in CycleArgs, offset \in OffsetArgs :
        /\ pc = "idle"
        /\ Call("filings", "today",
                [cycle |-> cycle, offset |-> offset],
                "/%s/filings",
                <<Default(cycle, PyInt(CURRENT_CYCLE))>>,
                [offset |-> Default(offset, PyInt(0)), parse |-> Results])

FilingsDate ==
    \E year \in YearArgs, month \in MonthArgs, day \in DayArgs, cycle \in CycleArgs, offset \in OffsetArgs :
        /\ pc = "idle"
        /\ Call("filings", "date",
                [year |-> year, month |-> month, day |-> day, cycle |-> cycle, offset |-> offset],
                "/%s/filings/%s/%s/%s",
                <<Default(cycle, PyInt(CURRENT_CYCLE)), year, month, day>>,
                [offset |-> Default(offset, PyInt(0)), parse |-> Results])

FilingsFormTypes ==
    \E cycle \in CycleArgs, offset \in OffsetArgs :
        /\ pc = "idle"
        /\ Call("filings", "form_types",
                [cycle |-> cycle, offset |-> offset],
                "/%s/filings/types",
                <<Default(cycle, PyInt(CURRENT_CYCLE))>>,
                [offset |-> Default(offset, PyInt(0)), parse |-> Results])

FilingsByType ==
    \E form_type \in FormTypeArgs, cycle \in CycleArgs, offset \in OffsetArgs :
        /\ pc = "idle"
        /\ Call("filings", "by_type",
                [form_type |-> form_type, cycle |-> cycle, offset |-> offset],
                "/%s/filings/types/%s",
                <<Default(cycle, PyInt(CURRENT_CYCLE)), form_type>>,
                [offset |-> Default(offset, PyInt(0)), parse |-> Results])

FilingsAmendments ==
    \E cycle \in CycleArgs, offset \in OffsetArgs :
        /\ pc = "idle"
        /\ Call("filings", "amendments",
                [cycle |-> cycle, offset |-> offset],
                "/%s/filings/amendments",
                <<Default(cycle, PyInt(CURRENT_CYCLE))>>,
                [offset |-> Default(offset, PyInt(0)), parse |-> Results])

CandidatesLatest ==
    \E cycle \in CycleArgs, offset \in OffsetArgs :
        /\ pc = "idle"
        /\ Call("candidates", "latest",
                [cycle |-> cycle, offset |-> offset],
                "/%s/candidates/new",
                <<Default(cycle, PyInt(CURRENT_CYCLE))>>,
                [offset |-> Default(offset, PyInt(0)), parse |-> Results])

CandidatesGet ==
    \E cand_id \in CandidateArgs, cycle \in CycleArgs, offset \in OffsetArgs :
        /\ pc = "idle"
        /\ Call("candidates", "get",
                [cand_id |-> cand_id, cycle |-> cycle, offset |-> offset],
                "/%s/candidates/%s",
                <<Default(cycle, PyInt(CURRENT_CYCLE)), cand_id>>,
                [offset |-> Default(offset, PyInt(0))])

CandidatesFilter ==
    \E query \in QueryArgs, cycle \in CycleArgs, offset \in OffsetArgs :
        /\ pc = "idle"
        /\ Call("candidates", "filter",
                [query |-> query, cycle |-> cycle, offset |-> offset],
                "/%s/candidates/search",
                <<Default(cycle, PyInt(CURRENT_CYCLE))>>,
                [query |-> query, offset |-> Default(offset, PyInt(0)), parse |-> Results])

CandidatesLeaders ==
    \E category \in CategoryArgs, cycle \in CycleArgs, offset \in OffsetArgs :
        /\ pc = "idle"
        /\ Call("candidates", "leaders",
                [category |-> category, cycle |-> cycle, offset |-> offset],
                "/%s/candidates/leaders/%s",
                <<Default(cycle, PyInt(CURRENT_CYCLE)), category>>,
                [offset |-> Default(offset, PyInt(0)), parse |-> Results])

\* seats passes fetch one of three templates, by `if district`, `elif chamber`
SeatsPath(chamber, district) ==
    IF Truthy(district) THEN "/%s/seats/%s/%s/%s"
    ELSE IF Truthy(chamber) THEN "/%s/seats/%s/%s"
    ELSE "/%s/seats/%s"

\* and the positional arguments that go with the template
SeatsArgs(cycle, state, chamber, district) ==
    IF Truthy(district) THEN <<cycle, state, chamber, district>>
    ELSE IF Truthy(chamber) THEN <<cycle, state, chamber>>
    ELSE <<cycle, state>>

CandidatesSeats ==
    \E state \in StateArgs, chamber \in ChamberArgs, district \in DistrictArgs,
       cycle \in CycleArgs, offset \in OffsetArgs :
        /\ pc = "idle"
        /\ Call("candidates", "seats",
                [state |-> state, chamber |-> chamber, district |-> district,
                 cycle |-> cycle, offset |-> offset],
                SeatsPath(Default(chamber, None), Default(district, None)),
                SeatsArgs(Default(cycle, PyInt(CURRENT_CYCLE)), state,
                          Default(chamber, None), Default(district, None)),
                [offset |-> Default(offset, PyInt(0)), parse |-> Results])

CommitteesLatest ==
    \E cycle \in CycleArgs, offset \in OffsetArgs :
        /\ pc = "idle"
        /\ Call("committees", "latest",
                [cycle |-> cycle, offset |-> offset],
                "/%s/committees/new",
                <<Default(cycle, PyInt(CURRENT_CYCLE))>>,
                [offset |-> Default(offset, PyInt(0)), parse |-> Results])

CommitteesGet ==
    \E cmte_id \in CommitteeArgs, cycle \in CycleArgs, offset \in OffsetArgs :
        /\ pc = "idle"
        /\ Call("committees", "get",
                [cmte_id |-> cmte_id, cycle |-> cycle, offset |-> offset],
                "/%s/committees/%s",
                <<Default(cycle, PyInt(CURRENT_CYCLE)), cmte_id>>,
                [offset |-> Default(offset, PyInt(0))])

CommitteesFilter ==
    \E query \in QueryArgs, cycle \in CycleArgs, offset \in OffsetArgs :
        /\ pc = "idle"
        /\ Call("committees", "filter",
                [query |-> query, cycle |-> cycle, offset |-> offset],
                "/%s/committees/search",
                <<Default(cycle, PyInt(CURRENT_CYCLE))>>,
                [query |-> query, offset |-> Default(offset, PyInt(0)), parse |-> Results])

CommitteesFilings ==
    \E cmte_id \in CommitteeArgs, cycle \in CycleArgs, offset \in OffsetArgs :
        /\ pc = "idle"
        /\ Call("committees", "filings",
                [cmte_id |-> cmte_id, cycle |-> cycle, offset |-> offset],
                "/%s/committees/%s/filings",
                <<Default(cycle, PyInt(CURRENT_CYCLE)), cmte_id>>,
                [offset |-> Default(offset, PyInt(0)), parse |-> Results])

CommitteesContributions ==
    \E cmte_id \in CommitteeArgs, cycle \in CycleArgs, offset \in OffsetArgs :
        /\ pc = "idle"
        /\ Call("committees", "contributions",
                [cmte_id |-> cmte_id, cycle |-> cycle, offset |-> offset],
                "/%s/committees/%s/contributions",
                <<Default(cycle, PyInt(CURRENT_CYCLE)), cmte_id>>,
                [offset |-> Default(offset, PyInt(0)), parse |-> Results])

CommitteesContributionsToCandidate ==
    \E cmte_id \in CommitteeArgs, candidate_id \in CandidateArgs, cycle \in CycleArgs, offset \in OffsetArgs :
        /\ pc = "idle"
        /\ Call("committees", "contributions_to_candidate",
                [cmte_id |-> cmte_id, candidate_id |-> candidate_id, cycle |-> cycle, offset |-> offset],
                "/%s/committees/%s/contributions/candidates/%s",
                <<Default(cycle, PyInt(CURRENT_CYCLE)), cmte_id, candidate_id>>,
                [offset |-> Default(offset, PyInt(0)), parse |-> Results])

CommitteesLeadership ==
    \E cycle \in CycleArgs, offset \in OffsetArgs :
        /\ pc = "idle"
        /\ Call("committees", "leadership",
                [cycle |-> cycle, offset |-> offset],
                "/%s/committees/leadership",
                <<Default(cycle, PyInt(CURRENT_CYCLE))>>,
                [offset |-> Default(offset, PyInt(0)), parse |-> Results])

\* the keyword arguments of a direct call of fetch: those the caller passes
Keywords(offset, parse, key) ==
    LET passed == {k \in {"offset", "parse", "api-key"} :
                      \/ k = "offset" /\ offset # Omitted
                      \/ k = "parse" /\ parse # Omitted
                      \/ k = "api-key" /\ key # Omitted}
    IN  [k \in passed |->
            IF k = "offset" THEN offset ELSE IF k = "parse" THEN parse ELSE key]

\* fetch called on the facade itself
FacadeFetch ==
    \E path \in RawPaths, args \in RawArgs, offset \in OffsetArgs,
       parse \in ParseArgs, key \in OwnKeyArgs :
        /\ pc = "idle"
        /\ Call("facade", "fetch",
                [offset |-> offset, parse |-> parse, key |-> key],
                path, args, Keywords(offset, parse, key))

Next ==
    \/ FilingsToday
    \/ FilingsDate
    \/ FilingsFormTypes
    \/ FilingsByType
    \/ FilingsAmendments
    \/ CandidatesLatest
    \/ CandidatesGet
    \/ CandidatesFilter
    \/ CandidatesLeaders
    \/ CandidatesSeats
    \/ CommitteesLatest
    \/ CommitteesGet
    \/ CommitteesFilter
    \/ CommitteesFilings
    \/ CommitteesContributions
    \/ CommitteesContributionsToCandidate
    \/ CommitteesLeadership
    \/ FacadeFetch
    \/ Return

Spec == Init /\ [][Next]_vars

-----------------------------------------------------------------------------
(* What the claims speak of *)

Done == pc = "done"
Requested == Len(sent) = 1
Success == resp.status_code \in {200, 304}
TopicCall == call.client \in {"filings", "candidates", "committees"}
DirectCall == call.client = "facade" /\ call.method = "fetch"
\* the key the facade was constructed with
ConstructedKey == IF given = Omitted THEN PyStr(environ) ELSE given
\* url % args fails: the call is ill-formed, whatever its keywords
IllFormed == outcome.kind = "raise" /\ outcome.type \in {"TypeError", "ValueError"}

\* "a; b; c", built from the right
RECURSIVE SemicolonSeparated(_)
SemicolonSeparated(l) ==
    IF Len(l) = 0 THEN ""
    ELSE IF Len(l) = 1 THEN l[1]
    ELSE SemicolonSeparated(SubSeq(l, 1, Len(l) - 1)) \o "; " \o l[Len(l)]

\* a path segment
Seg(x) == "/" \o Str(x)

\* The path of each endpoint as the endpoint table gives it, for the
\* arguments `a` of the call (the cycle being CURRENT_CYCLE when omitted).
TablePath(client, method, a) ==
    LET cycle == Seg(IF a.cycle = Omitted THEN PyInt(CURRENT_CYCLE) ELSE a.cycle)
    IN  CASE client = "filings" /\ method = "today" -> cycle \o "/filings"
          [] client = "filings" /\ method = "date" ->
                cycle \o "/filings" \o Seg(a.year) \o Seg(a.month) \o Seg(a.day)
          [] client = "filings" /\ method = "form_types" -> cycle \o "/filings/types"
          [] client = "filings" /\ method = "by_type" ->
                cycle \o "/filings/types" \o Seg(a.form_type)
          [] client = "filings" /\ method = "amendments" -> cycle \o "/filings/amendments"
          [] client = "candidates" /\ method = "latest" -> cycle \o "/candidates/new"
          [] client = "candidates" /\ method = "get" -> cycle \o "/candidates" \o Seg(a.cand_id)
          [] client = "candidates" /\ method = "filter" -> cycle \o "/candidates/search"
          [] client = "candidates" /\ method = "leaders" ->
                cycle \o "/candidates/leaders" \o Seg(a.category)
          [] client = "candidates" /\ method = "seats" ->
                cycle \o "/seats" \o Seg(a.state)
                \o (IF a.district # Omitted
                    THEN Seg(IF a.chamber = Omitted THEN None ELSE a.chamber) \o Seg(a.district)
                    ELSE IF a.chamber # Omitted THEN Seg(a.chamber) ELSE "")
          [] client = "committees" /\ method = "latest" -> cycle \o "/committees/new"
          [] client = "committees" /\ method = "get" -> cycle \o "/committees" \o Seg(a.cmte_id)
          [] client = "committees" /\ method = "filter" -> cycle \o "/committees/search"
          [] client = "committees" /\ method = "filings" ->
                cycle \o "/committees" \o Seg(a.cmte_id) \o "/filings"
          [] client = "committees" /\ method = "contributions" ->
                cycle \o "/committees" \o Seg(a.cmte_id) \o "/contributions"
          [] client = "committees" /\ method = "contributions_to_candidate" ->
                cycle \o "/committees" \o Seg(a.cmte_id) \o "/contributions/candidates"
                \o Seg(a.candidate_id)
          [] client = "committees" /\ method = "leadership" -> cycle \o "/committees/leadership"

\* the query parameters an endpoint sends
TableParams(method) ==
    IF method = "filter" THEN {"query", "offset", "api-key"} ELSE {"offset", "api-key"}

-----------------------------------------------------------------------------
(* The claims *)

\* C1: a call whose response has a status other than 200 and 304 and a body
\* with an `errors` list raises NytNotFoundError when the status is 404 and
\* NytCampfinError otherwise, the message being the errors joined with "; ".
C1_ErrorMapping ==
    (Done /\ Requested /\ ~Success /\ "errors" \in DOMAIN resp.json) =>
        /\ outcome.kind = "raise"
        /\ outcome.type =
              IF resp.status_code = 404 THEN "NytNotFoundError" ELSE "NytCampfinError"
        /\ outcome.msg = SemicolonSeparated(resp.json["errors"])
        /\ resp.json["errors"] = <<"server error", "retry later">>
              => outcome.msg = "server error; retry later"

C1_Witness ==
    /\ Done /\ Requested
    /\ resp.status_code = 500
    /\ "errors" \in DOMAIN resp.json
    /\ resp.json["errors"] = <<"server error", "retry later">>
    /\ outcome.kind = "raise"
    /\ outcome.type = "NytCampfinError"
    /\ outcome.msg = "server error; retry later"

\* C2: the offset sent is 0 when the caller passes 0 or None or omits the
\* offset, and the caller's value when it is truthy; a well-formed call does
\* not fail before the request.
C2_OffsetNormalized ==
    (Done /\ ~IllFormed) =>
        /\ Requested
        /\ sent[1].params["offset"] =
              IF Truthy(call.actual.offset) THEN call.actual.offset ELSE PyInt(0)

\* C3: an endpoint method makes one GET, to BASE_URI + the path of the table
\* with the arguments substituted + ".json"; query and offset go in the query
\* parameters, which are those of the table and no others.
C3_EndpointUrl ==
    (Done /\ TopicCall) =>
        /\ Requested
        /\ sent[1].url =
              BASE_URI \o TablePath(call.client, call.method, call.actual) \o ".json"
        /\ DOMAIN sent[1].params = TableParams(call.method)
        /\ call.method = "filter" => sent[1].params["query"] = call.actual.query

C3_Witness ==
    /\ Done /\ Requested
    /\ call.client = "committees"
    /\ call.method = "contributions_to_candidate"
    /\ call.actual.cycle = PyInt(2010)
    /\ sent[1].url = "http://api.nytimes.com/svc/elections/us/v3/finances"
                        \o "/2010/committees/C00490045/contributions/candidates/P80003338.json"

\* C4: on a 200 or 304 whose body has `results`, the two get methods return
\* the first result (there being one) and every other endpoint method
\* returns the whole list as it came.
C4_Extraction ==
    (Done /\ TopicCall /\ Requested /\ Success /\ "results" \in DOMAIN resp.json) =>
        IF call.method = "get"
        THEN Len(resp.json["results"]) > 0 =>
                /\ outcome.kind = "return"
                /\ outcome.value = resp.json["results"][1]
        ELSE /\ outcome.kind = "return"
             /\ outcome.value = resp.json["results"]

C4_Witness ==
    /\ Done /\ Requested
    /\ call.client = "candidates" /\ call.method = "get"
    /\ resp.status_code = 304
    /\ "results" \in DOMAIN resp.json
    /\ resp.json["results"] = <<[id |-> "C001"], [id |-> "C002"]>>
    /\ outcome = Returned([id |-> "C001"])

\* C5: the path seats builds has a segment for the cycle, the state and each
\* of chamber and district the caller supplied, and no other segment.
C5_SeatsShape ==
    (Done /\ call.client = "candidates" /\ call.method = "seats") =>
        /\ Requested
        /\ sent[1].url =
              BASE_URI
              \o Seg(IF call.actual.cycle = Omitted
                     THEN PyInt(CURRENT_CYCLE) ELSE call.actual.cycle)
              \o "/seats" \o Seg(call.actual.state)
              \o (IF call.actual.chamber # Omitted THEN Seg(call.actual.chamber) ELSE "")
              \o (IF call.actual.district # Omitted THEN Seg(call.actual.district) ELSE "")
              \o ".json"

\* C7: a well-formed call makes exactly one GET and then returns a value,
\* which it does only on a 200 or 304, or raises; on any other status it
\* raises and returns nothing.
C7_OneRequest ==
    (Done /\ ~IllFormed) =>
        /\ Requested
        /\ outcome.kind \in {"return", "raise"}
        /\ outcome.kind = "return" => Success
        /\ ~Success => outcome.kind = "raise"

\* C8: a response that is no success and has no `errors`, and a success
\* without `results` or with an empty one when the default parse is used,
\* end the call with a KeyError or an IndexError, not with an error of the
\* API, and no value is returned.
C8_MalformedBody ==
    (Done /\ Requested) =>
        /\ (~Success /\ "errors" \notin DOMAIN resp.json) =>
              outcome = Raised("KeyError", "errors")
        /\ (Success /\ "parse" \notin DOMAIN call.kwargs
                /\ "results" \notin DOMAIN resp.json) =>
              outcome = Raised("KeyError", "results")
        /\ (Success /\ "parse" \notin DOMAIN call.kwargs
                /\ "results" \in DOMAIN resp.json /\ Len(resp.json["results"]) = 0) =>
              (outcome.kind = "raise" /\ outcome.type = "IndexError")

C8_Witness ==
    /\ Done /\ Requested
    /\ resp.status_code = 500
    /\ resp.json = [status |-> "ERROR"]
    /\ outcome = Raised("KeyError", "errors")

\* C9: the facade and its three clients hold the key the facade was
\* constructed with (the argument, or the environment's key without one) in
\* every state, and every GET carries it as `api-key`, also when the caller
\* passes an api-key of its own.
C9_SharedKey ==
    /\ \A c \in Clients : apikey[c] = ConstructedKey
    /\ \A i \in 1..Len(sent) : sent[i].params["api-key"] = ConstructedKey

C9_Witness ==
    /\ Done /\ Requested /\ DirectCall
    /\ given = PyStr("K1")
    /\ "api-key" \in DOMAIN call.kwargs
    /\ call.kwargs["api-key"] = PyStr("OTHER")
    /\ sent[1].params["api-key"] = PyStr("K1")

\* C10: a direct fetch of a path that begins with the base URI, in any case
\* of letters, makes its GET to that path followed by "?", with the key and
\* the offset (0 unless the caller's is truthy) as parameters and nothing
\* substituted, and ends as any call does on that response; any other path
\* is a template.
C10_FullUrl ==
    (Done /\ DirectCall) =>
        IF StartsWith(Lower(call.path), BASE_URI)
        THEN /\ Requested
             /\ sent[1].url = call.path \o "?"
             /\ sent[1].params["api-key"] = apikey["facade"]
             /\ sent[1].params["offset"] =
                   IF "offset" \in DOMAIN call.kwargs /\ Truthy(call.kwargs["offset"])
                   THEN call.kwargs["offset"] ELSE PyInt(0)
             /\ (resp.status_code = 404 /\ "errors" \in DOMAIN resp.json) =>
                   outcome = Raised("NytNotFoundError", SemicolonSeparated(resp.json["errors"]))
             /\ (Success /\ "parse" \in DOMAIN call.kwargs /\ call.kwargs["parse"] = Results
                     /\ "results" \in DOMAIN resp.json) =>
                   outcome = Returned(resp.json["results"])
        ELSE "offset" \in DOMAIN call.kwargs =>
                LET path == PercentFormat(call.path, call.args)
                IN  IF path.exc # ""
                    THEN ~Requested /\ outcome.kind = "raise" /\ outcome.type = path.exc
                    ELSE Requested /\ sent[1].url = BASE_URI \o path.s \o ".json"

-----------------------------------------------------------------------------
(* What holds of the calls that C2, C7 and C10 are about *)

\* A call makes at most one GET; it returns a value only after a GET answered
\* 200 or 304, and a GET answered otherwise ends in a raise.  Through an
\* endpoint method the GET is always made, with offset 0 unless the caller's
\* is truthy.
OneRequestAtMost ==
    Done =>
        /\ Len(sent) <= 1
        /\ outcome.kind \in {"return", "raise"}
        /\ outcome.kind = "return" => (Requested /\ Success)
        /\ (Requested /\ ~Success) => outcome.kind = "raise"
        /\ TopicCall =>
              /\ Requested
              /\ sent[1].params["offset"] =
                    IF Truthy(call.actual.offset) THEN call.actual.offset ELSE PyInt(0)

\* C10_FullUrl of the direct calls that pass an offset.
FullUrlWithOffset ==
    (Done /\ DirectCall /\ "offset" \in DOMAIN call.kwargs) => C10_FullUrl

=============================================================================
